---------------------------- MODULE Spec2Model ----------------------------
(***************************************************************************)
(* A model of env_utils.py: the example-env parse, the value masker, the   *)
(* conflict detector, the reconciliation of the process environment with   *)
(* the example file, the dependency audit and the order of the run.        *)
(*                                                                         *)
(* Text is modelled as TLA+ strings, a file as a sequence of its lines     *)
(* (without the line terminator), a Python dict as a function whose        *)
(* DOMAIN is the set of keys, and an optional value (None or a str) as a   *)
(* sequence of length 0 or 1.                                              *)
(***************************************************************************)
EXTENDS Integers, Sequences, FiniteSets, TLC

(***************************************************************************)
(* Python str primitives.                                                  *)
(***************************************************************************)
None == <<>>
Some(v) == <<v>>

UpperCase == "ABCDEFGHIJKLMNOPQRSTUVWXYZ"
LowerCase == "abcdefghijklmnopqrstuvwxyz"
Digits == "0123456789"
Whitespace == {" ", "\t"}

CharAt(s, i) == SubSeq(s, i, i)

\* c in s, for a one-character string c
IsCharOf(c, s) == \E i \in 1..Len(s) : CharAt(s, i) = c

LowerChar(c) ==
    IF IsCharOf(c, UpperCase)
    THEN CharAt(LowerCase, CHOOSE i \in 1..Len(UpperCase) : CharAt(UpperCase, i) = c)
    ELSE c

RECURSIVE Lower(_)
\* str.lower()
Lower(s) == IF s = "" THEN "" ELSE LowerChar(Head(s)) \o Lower(Tail(s))

RECURSIVE LStrip(_)
LStrip(s) == IF s # "" /\ Head(s) \in Whitespace THEN LStrip(Tail(s)) ELSE s

RECURSIVE RStrip(_)
RStrip(s) ==
    IF s # "" /\ CharAt(s, Len(s)) \in Whitespace
    THEN RStrip(SubSeq(s, 1, Len(s) - 1))
    ELSE s

\* str.strip()
Strip(s) == RStrip(LStrip(s))

\* str.startswith(p), str.endswith(p)
StartsWith(s, p) == Len(s) >= Len(p) /\ SubSeq(s, 1, Len(p)) = p
EndsWith(s, p) == Len(s) >= Len(p) /\ SubSeq(s, Len(s) - Len(p) + 1, Len(s)) = p

\* sub in s
Contains(s, sub) ==
    \E i \in 1..(Len(s) - Len(sub) + 1) : SubSeq(s, i, i + Len(sub) - 1) = sub

\* str.find(c) + 1: the position of the first c in s, 0 when there is none
Find(s, c) ==
    IF Contains(s, c)
    THEN CHOOSE i \in 1..(Len(s) - Len(c) + 1) :
            /\ SubSeq(s, i, i + Len(c) - 1) = c
            /\ \A j \in 1..(i - 1) : SubSeq(s, j, j + Len(c) - 1) # c
    ELSE 0

\* s.split(c)[0] and s.split(c, 1)[1], for s containing c
BeforeFirst(s, c) == SubSeq(s, 1, Find(s, c) - 1)
AfterFirst(s, c) == SubSeq(s, Find(s, c) + Len(c), Len(s))

\* value[-4:]
LastFour(v) == IF Len(v) > 4 THEN SubSeq(v, Len(v) - 3, Len(v)) ELSE v

\* every string over the characters of alphabet, of length at most n
RECURSIVE StringsUpTo(_, _)
StringsUpTo(alphabet, n) ==
    IF n = 0 THEN {""}
    ELSE LET S == StringsUpTo(alphabet, n - 1)
         IN  S \cup {s \o c : s \in S, c \in alphabet}

\* every sequence over pool of length at most n
RECURSIVE SeqsUpTo(_, _)
SeqsUpTo(pool, n) ==
    IF n = 0 THEN {<<>>}
    ELSE LET S == SeqsUpTo(pool, n - 1)
         IN  S \cup {Append(s, x) : s \in S, x \in pool}

\* d[k] = v added to the dict d
Put(d, k, v) == [x \in DOMAIN d \cup {k} |-> IF x = k THEN v ELSE d[x]]
EmptyDict == [x \in {} |-> None]

(***************************************************************************)
(* summarize_value                                                         *)
(***************************************************************************)
\* a masker that keeps one character too many
summarize_value_keeps_five(key, value, example_value) ==
    IF Lower(value) \in {"true", "false"} THEN Lower(value)
    ELSE IF ~EndsWith(key, "API_KEY") THEN value
    ELSE IF example_value # None /\ example_value[1] # "" /\ value = example_value[1]
         THEN value
    ELSE IF Len(value) > 5 THEN "****" \o SubSeq(value, Len(value) - 4, Len(value))
    ELSE "****" \o value

\* example_value is None or Some(str)
summarize_value(key, value, example_value) ==
    LET lower == Lower(value)
        is_api_key == EndsWith(key, "API_KEY")
    IN  IF lower \in {"true", "false"} THEN lower
        ELSE IF ~is_api_key THEN value
        ELSE IF example_value # None /\ example_value[1] # "" /\ value = example_value[1]
             THEN value
        ELSE IF Len(value) > 4 THEN "****" \o LastFour(value)
        ELSE "****" \o value

(***************************************************************************)
(* doublecheck_env: the parse of the example file                          *)
(***************************************************************************)
\* the quotes removed from a value, if present
Unquote(value) ==
    IF StartsWith(value, "'") /\ EndsWith(value, "'") THEN SubSeq(value, 2, Len(value) - 1)
    ELSE IF StartsWith(value, "\"") /\ EndsWith(value, "\"")
    THEN SubSeq(value, 2, Len(value) - 1)
    ELSE value

IsCommentLine(line) == StartsWith(Strip(line), "#")
IsKeyValueLine(line) == ~IsCommentLine(line) /\ Contains(Strip(line), "=")
MentionsRequired(line) == Contains(Lower(Strip(line)), "required")
LineKey(line) == Strip(BeforeFirst(Strip(line), "="))
LineValue(line) == Unquote(Strip(AfterFirst(Strip(line), "=")))

\* the state of the parse before the first line
ParseStart ==
    [is_required_section |-> FALSE,
     required_keys       |-> EmptyDict,
     all_example_values  |-> EmptyDict]

\* a parse whose required section is closed by no comment
ParseLineSticky(st, line) ==
    IF IsCommentLine(line)
    THEN [st EXCEPT !.is_required_section = @ \/ MentionsRequired(line)]
    ELSE IF IsKeyValueLine(line)
    THEN [st EXCEPT
            !.all_example_values = Put(@, LineKey(line), LineValue(line)),
            !.required_keys = IF st.is_required_section
                              THEN Put(@, LineKey(line), LineValue(line))
                              ELSE @]
    ELSE st

\* one iteration of the loop over the lines of the example file
ParseLine(st, line) ==
    IF IsCommentLine(line)
    THEN [st EXCEPT !.is_required_section = MentionsRequired(line)]
    ELSE IF IsKeyValueLine(line)
    THEN [st EXCEPT
            !.all_example_values = Put(@, LineKey(line), LineValue(line)),
            !.required_keys = IF st.is_required_section
                              THEN Put(@, LineKey(line), LineValue(line))
                              ELSE @]
    ELSE st

RECURSIVE ParseFrom(_, _, _)
ParseFrom(st, lines, i) ==
    IF i > Len(lines) THEN st ELSE ParseFrom(ParseLine(st, lines[i]), lines, i + 1)

\* the whole loop
ParseExample(lines) == ParseFrom(ParseStart, lines, 1)

(***************************************************************************)
(* dotenv_values and load_dotenv, as the code calls them.  One binding per *)
(* line: an optional "export ", a key (quoted or not), an optional "=" and *)
(* value (quoted or not), an optional comment.  A line that does not match *)
(* is skipped; a key without "=" has the value None.  The files modelled   *)
(* hold no backslash, no "$" and no quote left open, so escapes,           *)
(* interpolation and values over several lines do not arise.               *)
(* load_dotenv() is taken to find the .env that check_env_conflicts and    *)
(* doublecheck_env read, the one of the working directory.                 *)
(***************************************************************************)
RECURSIVE UnquotedKeyLen(_, _)
\* the length of the longest prefix of s, after its first n characters, without = # or whitespace
UnquotedKeyLen(s, n) ==
    IF n < Len(s) /\ CharAt(s, n + 1) \notin (Whitespace \cup {"=", "#"})
    THEN UnquotedKeyLen(s, n + 1)
    ELSE n

\* the positions of part where an inline comment starts: whitespace, then #
CommentStarts(part) ==
    {i \in 1..Len(part) :
        /\ CharAt(part, i) \in Whitespace
        /\ StartsWith(LStrip(SubSeq(part, i, Len(part))), "#")}

\* part cut before the first of the positions starts
CutBefore(part, starts) ==
    IF starts = {} THEN part
    ELSE SubSeq(part, 1, (CHOOSE i \in starts : \A j \in starts : i <= j) - 1)

\* part with its inline comment removed
StripInlineComment(part) == CutBefore(part, CommentStarts(part))

NoBinding == [key |-> None, value |-> None, error |-> FALSE]
ErrorBinding == [key |-> None, value |-> None, error |-> TRUE]

\* what may follow a binding on its line: whitespace, or a comment
IsLineEnd(rest) == LStrip(rest) = "" \/ StartsWith(LStrip(rest), "#")

\* a quoted value: body is the line after the opening quote q
DotenvQuoted(key, body, q) ==
    IF ~Contains(body, q) THEN ErrorBinding
    ELSE IF ~IsLineEnd(AfterFirst(body, q)) THEN ErrorBinding
    ELSE [key |-> Some(key), value |-> Some(BeforeFirst(body, q)), error |-> FALSE]

\* the value of a binding; r is the line after "=" and whitespace
DotenvValue(key, r) ==
    IF StartsWith(r, "'") \/ StartsWith(r, "\"")
    THEN DotenvQuoted(key, Tail(r), CharAt(r, 1))
    ELSE [key |-> Some(key), value |-> Some(RStrip(StripInlineComment(r))), error |-> FALSE]

\* a key read; r is the line after it and whitespace
DotenvAfterKey(key, r) ==
    IF StartsWith(r, "=") THEN DotenvValue(key, LStrip(Tail(r)))
    ELSE IF IsLineEnd(r) THEN [key |-> Some(key), value |-> None, error |-> FALSE]
    ELSE ErrorBinding

\* a quoted key: body is the line after the opening quote
DotenvQuotedKey(body) ==
    IF Find(body, "'") < 2 THEN ErrorBinding
    ELSE DotenvAfterKey(BeforeFirst(body, "'"), LStrip(AfterFirst(body, "'")))

\* an unquoted key of n characters at the start of s
DotenvUnquotedKey(s, n) ==
    IF n = 0 THEN ErrorBinding
    ELSE DotenvAfterKey(SubSeq(s, 1, n), LStrip(SubSeq(s, n + 1, Len(s))))

\* s without a leading "export" and the whitespace after it
SkipExport(s) ==
    IF StartsWith(s, "export") /\ Len(s) > 6 /\ CharAt(s, 7) \in Whitespace
    THEN LStrip(SubSeq(s, 7, Len(s)))
    ELSE s

\* the binding that starts at s, which is not empty
DotenvKey(s) ==
    IF StartsWith(s, "#") THEN NoBinding
    ELSE IF StartsWith(s, "'") THEN DotenvQuotedKey(Tail(s))
    ELSE DotenvUnquotedKey(s, UnquotedKeyLen(s, 0))

\* the binding of one line
DotenvBinding(line) ==
    IF LStrip(line) = "" THEN NoBinding ELSE DotenvKey(SkipExport(LStrip(line)))

\* the binding b added to the dict d
AddBinding(d, b) == IF b.key = None THEN d ELSE Put(d, b.key[1], b.value)

RECURSIVE DotenvFrom(_, _, _)
DotenvFrom(d, lines, i) ==
    IF i > Len(lines) THEN d
    ELSE DotenvFrom(AddBinding(d, DotenvBinding(lines[i])), lines, i + 1)

\* dotenv_values(path): key -> None or Some(value), a later binding of a key replacing an earlier one
dotenv_values(lines) == DotenvFrom(EmptyDict, lines, 1)

\* the key of the binding b added to the keys ks, if it is new
AddKey(ks, b) ==
    IF b.key = None \/ \E j \in 1..Len(ks) : ks[j] = b.key[1] THEN ks
    ELSE Append(ks, b.key[1])

RECURSIVE DotenvKeysFrom(_, _, _)
DotenvKeysFrom(ks, lines, i) ==
    IF i > Len(lines) THEN ks
    ELSE DotenvKeysFrom(AddKey(ks, DotenvBinding(lines[i])), lines, i + 1)

\* dotenv_values(path).keys(): the keys in the order of their first binding
dotenv_keys(lines) == DotenvKeysFrom(<<>>, lines, 1)

\* a load that overrides, as load_dotenv(override=True)
LoadIntoOverriding(env, file_vars) ==
    [k \in DOMAIN env \cup {x \in DOMAIN file_vars : file_vars[x] # None} |->
        IF k \in DOMAIN file_vars /\ file_vars[k] # None THEN file_vars[k][1] ELSE env[k]]

\* os.environ after load_dotenv(): a key already set keeps its value, a None value sets nothing
LoadInto(env, file_vars) ==
    [k \in DOMAIN env \cup {x \in DOMAIN file_vars : file_vars[x] # None} |->
        IF k \in DOMAIN env THEN env[k] ELSE file_vars[k][1]]

\* os.environ.get(key) / os.getenv(key)
Getenv(env, key) == IF key \in DOMAIN env THEN Some(env[key]) ELSE None

\* os.getenv(key, default)
GetenvOr(env, key, default) == IF key \in DOMAIN env THEN env[key] ELSE default

(***************************************************************************)
(* check_env_conflicts                                                     *)
(***************************************************************************)
\* a detector that takes every key of .env set in the environment for a conflict
ConflictOfPresent(key, sys_value, file_value) ==
    IF sys_value # None
    THEN <<[key |-> key, system_value |-> sys_value[1], file_value |-> file_value]>>
    ELSE <<>>

\* the conflict of one key, if it is one
ConflictOf(key, sys_value, file_value) ==
    IF sys_value # None /\ sys_value # file_value
    THEN <<[key |-> key, system_value |-> sys_value[1], file_value |-> file_value]>>
    ELSE <<>>

RECURSIVE ConflictsFrom(_, _, _, _)
\* the loop over env_file_vars.items(): keys is their order, i the next one
ConflictsFrom(env, env_file_vars, keys, i) ==
    IF i > Len(keys) THEN <<>>
    ELSE ConflictOf(keys[i], Getenv(env, keys[i]), env_file_vars[keys[i]])
         \o ConflictsFrom(env, env_file_vars, keys, i + 1)

\* the list of conflicts of a .env file that exists
ConflictsOf(env, file_lines) ==
    ConflictsFrom(env, dotenv_values(file_lines), dotenv_keys(file_lines), 1)

\* the list of conflicts of a .env file, None when it is missing
ConflictsIn(env, dotenv) == IF dotenv = None THEN <<>> ELSE ConflictsOf(env, dotenv[1])

\* the report takes len() of the file value of an API key: a TypeError when it is None
ConflictReportRaises(found) ==
    \E i \in 1..Len(found) :
        EndsWith(found[i].key, "API_KEY") /\ found[i].file_value = None

(***************************************************************************)
(* doublecheck_env: the reconciliation                                     *)
(***************************************************************************)
\* the characters of the modelled files in the order of their code points
Ascii == "\t !\"#$%&'()+,-./0123456789:;<=>?@ABCDEFGHIJKLMNOPQRSTUVWXYZ[]^_abcdefghijklmnopqrstuvwxyz{|}~"
Ord(c) == CHOOSE i \in 1..Len(Ascii) : CharAt(Ascii, i) = c

\* a < b, as Python orders two str
StrLess(a, b) ==
    \E i \in 1..Len(b) :
        /\ i - 1 <= Len(a)
        /\ SubSeq(a, 1, i - 1) = SubSeq(b, 1, i - 1)
        /\ \/ Len(a) = i - 1
           \/ Len(a) >= i /\ Ord(CharAt(a, i)) < Ord(CharAt(b, i))

\* min(S)
Least(S) == CHOOSE x \in S : \A y \in S \ {x} : StrLess(x, y)

RECURSIVE Sorted(_)
\* sorted(S)
Sorted(S) == IF S = {} THEN <<>> ELSE <<Least(S)>> \o Sorted(S \ {Least(S)})

\* d.get(key)
Get(d, key) == IF key \in DOMAIN d THEN Some(d[key]) ELSE None

\* the issue, if any, of one key of the loop over parsed.keys()
KeyIssue(key, is_required, current, example_val) ==
    IF current # None
    THEN IF is_required /\ current = example_val
         THEN <<[kind |-> "StillPlaceholder", key |-> key]>>
         ELSE <<>>
    ELSE IF is_required
         THEN <<[kind |-> "MissingRequired", key |-> key]>>
         ELSE <<>>

RECURSIVE KeyIssuesFrom(_, _, _, _)
\* the issues of the loop over parsed.keys(), from its i-th key on
KeyIssuesFrom(env, parse, keys, i) ==
    IF i > Len(keys) THEN <<>>
    ELSE KeyIssue(keys[i], keys[i] \in DOMAIN parse.required_keys, Getenv(env, keys[i]),
                  Get(parse.all_example_values, keys[i]))
         \o KeyIssuesFrom(env, parse, keys, i + 1)

\* the line printed for one key, given its value and the example value to compare with
KeyLine(key, current, example_val) ==
    [key |-> key,
     shown |-> IF current # None THEN summarize_value(key, current[1], example_val)
               ELSE "<not set>"]

\* the special check for LangSmith tracing
TracingIssue(langsmith_tracing, langsmith_api_key, langsmith_example) ==
    IF langsmith_tracing = "true"
    THEN IF langsmith_api_key = ""
         THEN <<[kind |-> "TracingKeyNotSet", key |-> "LANGSMITH_API_KEY"]>>
         ELSE IF langsmith_api_key = langsmith_example
         THEN <<[kind |-> "TracingKeyPlaceholder", key |-> "LANGSMITH_API_KEY"]>>
         ELSE <<>>
    ELSE IF langsmith_api_key # "" /\ langsmith_api_key # langsmith_example
         THEN <<[kind |-> "KeySetTracingDisabled", key |-> "LANGSMITH_API_KEY"]>>
         ELSE <<>>

\* a check that compares LANGSMITH_TRACING as it is written
TracingIssuesCaseSensitive(env, all_example_values) ==
    TracingIssue(GetenvOr(env, "LANGSMITH_TRACING", ""),
                 GetenvOr(env, "LANGSMITH_API_KEY", ""),
                 GetenvOr(all_example_values, "LANGSMITH_API_KEY", ""))

TracingIssues(env, all_example_values) ==
    TracingIssue(Lower(GetenvOr(env, "LANGSMITH_TRACING", "")),
                 GetenvOr(env, "LANGSMITH_API_KEY", ""),
                 GetenvOr(all_example_values, "LANGSMITH_API_KEY", ""))

\* the elements of a sequence
Range(seq) == {seq[i] : i \in 1..Len(seq)}

\* the variables of .env that the example file does not declare, sorted
AdditionalVars(dotenv, printed_keys) ==
    IF dotenv = None THEN <<>>
    ELSE Sorted(DOMAIN dotenv_values(dotenv[1]) \ printed_keys)

\* what doublecheck_env has found, printed and read once its loops are through
Report(env, parse, parsed, additional_vars) ==
    [issues |-> KeyIssuesFrom(env, parse, parsed, 1)
                \o TracingIssues(env, parse.all_example_values),
     printed |-> [i \in 1..Len(parsed) |->
                    KeyLine(parsed[i], Getenv(env, parsed[i]),
                            Get(parse.all_example_values, parsed[i]))]
                 \o [i \in 1..Len(additional_vars) |->
                    KeyLine(additional_vars[i], Getenv(env, additional_vars[i]), None)],
     observed |-> [k \in Range(parsed) \cup Range(additional_vars) |-> Getenv(env, k)]]

\* the example file parsed by hand (parse) and by dotenv_values (parsed)
Reconciled(env, parse, parsed, dotenv) ==
    Report(env, parse, parsed, AdditionalVars(dotenv, Range(parsed)))

\* doublecheck_env(file_path) for an example file that exists
Reconcile(env, example_lines, dotenv) ==
    Reconciled(env, ParseExample(example_lines), dotenv_keys(example_lines), dotenv)

(***************************************************************************)
(* doublecheck_pkgs.  A requirement string is a name, then at most one     *)
(* version clause (operator and version); a version is digits separated by *)
(* dots.  Extras, markers, URLs and several clauses are not modelled.      *)
(***************************************************************************)
IsDigit(c) == IsCharOf(c, Digits)
IsAlnum(c) == IsDigit(c) \/ IsCharOf(c, UpperCase) \/ IsCharOf(c, LowerCase)

RECURSIVE DigitsLen(_, _)
\* the length of the run of digits of s after its first n characters
DigitsLen(s, n) ==
    IF n < Len(s) /\ IsDigit(CharAt(s, n + 1)) THEN 1 + DigitsLen(s, n + 1) ELSE 0

DigitValue(c) == (CHOOSE i \in 1..Len(Digits) : CharAt(Digits, i) = c) - 1

RECURSIVE ToInt(_)
\* int(s), for a string of digits
ToInt(s) ==
    IF s = "" THEN 0
    ELSE 10 * ToInt(SubSeq(s, 1, Len(s) - 1)) + DigitValue(CharAt(s, Len(s)))

RECURSIVE ToStr(_)
\* str(n), for n >= 0
ToStr(n) == IF n < 10 THEN CharAt(Digits, n + 1) ELSE ToStr(n \div 10) \o CharAt(Digits, (n % 10) + 1)

NoRelease == <<-1>>

RECURSIVE Release(_)
RECURSIVE ReleaseAfter(_, _)
\* the release of v, which starts with n digits
ReleaseAfter(v, n) ==
    IF n = 0 THEN NoRelease
    ELSE IF n = Len(v) THEN <<ToInt(v)>>
    ELSE IF CharAt(v, n + 1) # "." \/ Release(SubSeq(v, n + 2, Len(v))) = NoRelease
    THEN NoRelease
    ELSE <<ToInt(SubSeq(v, 1, n))>> \o Release(SubSeq(v, n + 2, Len(v)))

\* Version(v).release, or NoRelease when v is no version
Release(v) == ReleaseAfter(v, DigitsLen(v, 0))

IsVersion(v) == Release(v) # NoRelease

\* the i-th number of a release, 0 past its end
Part(r, i) == IF i <= Len(r) THEN r[i] ELSE 0

\* the places where releases a and b differ
Differences(a, b) ==
    {i \in 1..(IF Len(a) > Len(b) THEN Len(a) ELSE Len(b)) : Part(a, i) # Part(b, i)}

\* -1 or 1 as a is below or above b at the first of the places diff
CompareAt(a, b, diff) ==
    IF diff = {} THEN 0
    ELSE IF \E i \in diff : (\A y \in diff : i <= y) /\ Part(a, i) < Part(b, i) THEN -1
    ELSE 1

\* -1, 0 or 1 as release a is below, equal to or above release b
CompareRelease(a, b) == CompareAt(a, b, Differences(a, b))

Operators == <<"~=", "==", "!=", "<=", ">=", "<", ">">>

\* the first of the operators at the places found
FirstOperator(found) ==
    IF found = {} THEN "" ELSE Operators[CHOOSE i \in found : \A j \in found : i <= j]

\* the operator a version clause starts with, "" when there is none
ClauseOperator(clause) ==
    FirstOperator({i \in 1..Len(Operators) : StartsWith(clause, Operators[i])})

RECURSIVE NameCharsLen(_, _)
\* the longest prefix of s, after its first n characters, of letters, digits, ".", "_" and "-"
NameCharsLen(s, n) ==
    IF n < Len(s) /\ (IsAlnum(CharAt(s, n + 1)) \/ CharAt(s, n + 1) \in {".", "_", "-"})
    THEN NameCharsLen(s, n + 1)
    ELSE n

RECURSIVE NameEnd(_, _)
\* the name ends with a letter or a digit
NameEnd(s, n) == IF n > 0 /\ ~IsAlnum(CharAt(s, n)) THEN NameEnd(s, n - 1) ELSE n

Unparsed == [ok |-> FALSE, name |-> "", specifier |-> ""]

\* the version clause of a requirement: its operator and its version
RequirementVersion(name, op, version) ==
    IF op # "" /\ IsVersion(version)
    THEN [ok |-> TRUE, name |-> name, specifier |-> op \o version]
    ELSE Unparsed

\* what follows the name of a requirement
RequirementClause(name, clause, op) ==
    IF clause = "" THEN [ok |-> TRUE, name |-> name, specifier |-> ""]
    ELSE RequirementVersion(name, op, LStrip(SubSeq(clause, Len(op) + 1, Len(clause))))

\* the requirement s, whose name is its first n characters
RequirementNamed(s, n, clause) ==
    IF n = 0 THEN Unparsed
    ELSE RequirementClause(SubSeq(s, 1, n), clause, ClauseOperator(clause))

\* the name of a requirement is followed by whitespace and its version clause
NameLen(s) == NameEnd(s, NameCharsLen(s, 0))
RequirementOf(s) == RequirementNamed(s, NameLen(s), LStrip(SubSeq(s, NameLen(s) + 1, Len(s))))

\* Requirement(dep): whether it parses, req.name and str(req.specifier)
Requirement(dep) == RequirementOf(Strip(dep))

\* a version whose release is have, against the clause op wanted, which compare as c
Satisfies(op, have, wanted, c) ==
    CASE op = "==" -> c = 0
      [] op = "!=" -> c # 0
      [] op = "<=" -> c <= 0
      [] op = ">=" -> c >= 0
      [] op = "<"  -> c < 0
      [] op = ">"  -> c > 0
      [] op = "~=" -> c >= 0 /\ \A i \in 1..(Len(wanted) - 1) : Part(have, i) = wanted[i]

InClause(op, have, wanted) == Satisfies(op, have, wanted, CompareRelease(have, wanted))

InSpecifier(installed_ver, spec, op) ==
    InClause(op, Release(installed_ver), Release(SubSeq(spec, Len(op) + 1, Len(spec))))

\* Version(installed_ver) in SpecifierSet(spec), for a spec of one clause
InSpecifierSet(installed_ver, spec) == InSpecifier(installed_ver, spec, ClauseOperator(spec))

\* the end of the match of python\d+\.\d+ at position x of path_str, 0 when there is
\* none: d1 digits follow "python", and dot is the place after them
PyVersionEnd(path_str, x, d1, dot) ==
    IF /\ x + 5 <= Len(path_str) /\ SubSeq(path_str, x, x + 5) = "python" /\ d1 > 0
       /\ dot <= Len(path_str) /\ CharAt(path_str, dot) = "." /\ DigitsLen(path_str, dot) > 0
    THEN dot + DigitsLen(path_str, dot)
    ELSE 0

PyVersionAt(path_str, x) ==
    PyVersionEnd(path_str, x, DigitsLen(path_str, x + 5),
                 x + 5 + DigitsLen(path_str, x + 5) + 1)

\* re.findall(r'python\d+\.\d+', path_str)
PyVersionsInPath(path_str) ==
    {SubSeq(path_str, x, PyVersionAt(path_str, x)) :
        x \in {y \in 1..Len(path_str) : PyVersionAt(path_str, y) > 0}}

\* metadata.version(name) and metadata.distribution(name): dists maps the normalised
\* name of each installed distribution to its version and its path (None when it
\* cannot be located); an empty name is refused with a ValueError
Lookup(dists, name) ==
    IF name = "" THEN [outcome |-> "ValueError"]
    ELSE IF Lower(name) \in DOMAIN dists
    THEN [outcome |-> "found", version |-> dists[Lower(name)].version,
          path |-> dists[Lower(name)].path]
    ELSE [outcome |-> "PackageNotFoundError"]

\* any(op in spec for op in "<>=")
HasOperatorChar(spec) == Contains(spec, "<") \/ Contains(spec, ">") \/ Contains(spec, "=")

\* sys.version_info as the directory name of its site-packages
ExpectedPyVersion(info) == "python" \o ToStr(info[1]) \o "." \o ToStr(info[2])

\* the path names interpreter versions, versions, and none of them is the running one
WrongVersion(path, path_str, versions, expected_py_version) ==
    /\ Contains(path_str, "python") /\ path # "(unknown)"
    /\ versions # {}
    /\ Lower(expected_py_version) \notin versions

WrongVersionIn(path, path_str, info) ==
    WrongVersion(path, path_str, PyVersionsInPath(path_str), ExpectedPyVersion(info))

\* an audit that tests the specifier before the path
StatusOfSpecifierFirst(spec, installed_ver, wrong_version) ==
    IF spec \notin {"(any)", "(unparsed)"} /\ HasOperatorChar(spec)
       /\ ~InSpecifierSet(installed_ver, spec)
    THEN "Version mismatch"
    ELSE IF wrong_version THEN "Wrong Python version"
    ELSE "OK"

\* the status of a distribution that is installed
StatusOf(spec, installed_ver, wrong_version) ==
    IF wrong_version THEN "Wrong Python version"
    ELSE IF spec \notin {"(any)", "(unparsed)"} /\ HasOperatorChar(spec)
    THEN IF InSpecifierSet(installed_ver, spec) THEN "OK" ELSE "Version mismatch"
    ELSE "OK"

InstalledStatus(spec, installed_ver, path, info) ==
    StatusOf(spec, installed_ver, WrongVersionIn(path, Lower(path), info))

\* the record of a distribution that is installed
FoundRecord(name, spec, installed_ver, path, info) ==
    [package |-> name, required |-> spec, installed |-> installed_ver, path |-> path,
     status |-> InstalledStatus(spec, installed_ver, path, info)]

\* the record of one dependency, or the exception that leaves the loop
AuditLookup(name, spec, got, info) ==
    IF got.outcome = "ValueError" THEN [raised |-> TRUE]
    ELSE IF got.outcome = "PackageNotFoundError"
    THEN [raised |-> FALSE,
          rec |-> [package |-> name, required |-> spec, installed |-> "-",
                   path |-> "-", status |-> "Missing"]]
    ELSE [raised |-> FALSE,
          rec |-> FoundRecord(name, spec, got.version,
                              IF got.path = None THEN "(unknown)" ELSE got.path[1], info)]

AuditNamed(name, spec, dists, info) == AuditLookup(name, spec, Lookup(dists, name), info)

\* name and spec of a dependency, parsed or not
AuditParsed(dep, req, dists, info) ==
    AuditNamed(IF req.ok THEN req.name ELSE dep,
               IF ~req.ok THEN "(unparsed)"
               ELSE IF req.specifier # "" THEN req.specifier ELSE "(any)",
               dists, info)

\* one iteration of the loop over deps
AuditDep(dep, dists, info) == AuditParsed(dep, Requirement(dep), dists, info)

RECURSIVE AuditFrom(_, _, _, _, _)
RECURSIVE AuditNext(_, _, _, _, _, _)
\* the loop after its i-th dependency, whose outcome is one
AuditNext(done, one, dependencies, i, dists, info) ==
    IF one.raised THEN [raised |-> TRUE, results |-> done]
    ELSE AuditFrom(Append(done, one.rec), dependencies, i + 1, dists, info)

\* the loop from its i-th dependency on, with the results so far
AuditFrom(done, dependencies, i, dists, info) ==
    IF i > Len(dependencies) THEN [raised |-> FALSE, results |-> done]
    ELSE AuditNext(done, AuditDep(dependencies[i], dists, info), dependencies, i, dists, info)

\* doublecheck_pkgs for a pyproject.toml that exists, with its [project].dependencies
Audit(dependencies, dists, info) == AuditFrom(<<>>, dependencies, 1, dists, info)

(***************************************************************************)
(* The state: the files and the process the run starts in, the position of *)
(* the run, and what each step has produced.                               *)
(***************************************************************************)
VARIABLES
    pc,                 \* the step about to run
    imports_available,  \* EXTERNAL_IMPORTS_AVAILABLE
    environ,            \* os.environ
    dotenv_file,        \* .env: None when missing, else Some(lines)
    example_file,       \* example.env: None when missing, else Some(lines)
    pyproject,          \* pyproject.toml: None when missing, else Some(dependencies)
    dists,              \* the installed distributions
    version_info,       \* sys.version_info: <<major, minor>>
    executed,           \* the functions called so far, in order
    exit_code,          \* None while running, else Some(status)
    conflicts,          \* check_env_conflicts: conflicts
    issues,             \* doublecheck_env: issues
    printed,            \* doublecheck_env: the KEY=value lines printed
    observed,           \* doublecheck_env: key -> os.getenv(key) as read
    results,            \* doublecheck_pkgs: results
    line_no,            \* the lines of the example file parsed so far
    parse,              \* is_required_section, required_keys, all_example_values
    masked              \* the last call of summarize_value and its result

vars == <<pc, imports_available, environ, dotenv_file, example_file, pyproject, dists,
          version_info, executed, exit_code, conflicts, issues, printed, observed,
          results, line_no, parse, masked>>

inputs == <<imports_available, dotenv_file, example_file, pyproject, dists, version_info>>
loops == <<line_no, parse, masked>>

\* nothing produced yet by the steps from load_dotenv on
Fresh ==
    /\ exit_code = None
    /\ issues = <<>>
    /\ printed = <<>>
    /\ observed = EmptyDict
    /\ results = <<>>
    /\ line_no = 0
    /\ parse = ParseStart
    /\ masked = None

\* the process environments with some of the keys of choices set, each to one of its values
Environs(choices) ==
    LET values == UNION {choices[k] : k \in DOMAIN choices}
    IN  UNION {{f \in [K -> values] : \A k \in K : f[k] \in choices[k]} :
               K \in SUBSET DOMAIN choices}

\* a file that is missing, or holds at most n lines of pool
Files(pool, n) == {None} \cup {Some(f) : f \in SeqsUpTo(pool, n)}

(***************************************************************************)
(* The run of the script                                                   *)
(***************************************************************************)
\* a main block that loads .env before it looks for conflicts
MainStepsLoadFirst ==
    <<"check_venv", "check_manual_installs", "load_dotenv", "check_env_conflicts",
      "doublecheck_env", "doublecheck_pkgs">>

\* the calls of the main block after the import check, in order
MainSteps ==
    <<"check_venv", "check_manual_installs", "check_env_conflicts", "load_dotenv",
      "doublecheck_env", "doublecheck_pkgs">>

\* where the run goes after a call that returns
StepAfter(step) ==
    LET i == CHOOSE x \in 1..Len(MainSteps) : MainSteps[x] = step
    IN  IF i = Len(MainSteps) THEN "end" ELSE MainSteps[i + 1]

\* the main block stops the run when the external imports failed
MustExit(available) == ~available

\* the call of step returns
Returns(step) ==
    /\ executed' = Append(executed, step)
    /\ pc' = StepAfter(step)
    /\ exit_code' = exit_code

\* the call of step raises: the traceback ends the run with status 1
Raises(step) ==
    /\ executed' = Append(executed, step)
    /\ pc' = "exited"
    /\ exit_code' = Some(1)

Diagnostics ==
    /\ pc = "check_python_executable_and_version"
    /\ executed' = Append(executed, pc)
    /\ pc' = "imports_check"
    /\ UNCHANGED <<inputs, loops, environ, exit_code, conflicts, issues, printed, observed,
                   results>>

ExitImportError ==
    /\ pc = "imports_check"
    /\ MustExit(imports_available)
    /\ pc' = "exited"
    /\ exit_code' = Some(1)
    /\ UNCHANGED <<inputs, loops, environ, executed, conflicts, issues, printed, observed,
                   results>>

Proceed ==
    /\ pc = "imports_check"
    /\ ~MustExit(imports_available)
    /\ pc' = MainSteps[1]
    /\ UNCHANGED <<inputs, loops, environ, executed, exit_code, conflicts, issues, printed,
                   observed, results>>

\* check_venv reads sys.prefix and looks for uv, and prints
CheckVenv ==
    /\ pc = "check_venv"
    /\ Returns("check_venv")
    /\ UNCHANGED <<inputs, loops, environ, conflicts, issues, printed, observed, results>>

\* check_manual_installs looks the listed applications up in PATH, and prints
CheckManualInstalls ==
    /\ pc = "check_manual_installs"
    /\ Returns("check_manual_installs")
    /\ UNCHANGED <<inputs, loops, environ, conflicts, issues, printed, observed, results>>

\* check_env_conflicts has found the conflicts found, and reports them
ReportConflicts(found) ==
    /\ ~ConflictReportRaises(found)
    /\ Returns("check_env_conflicts")
    /\ conflicts' = found

\* the report of the conflicts found raises
ReportConflictsRaises(found) ==
    /\ ConflictReportRaises(found)
    /\ Raises("check_env_conflicts")
    /\ conflicts' = found

CheckEnvConflicts ==
    /\ pc = "check_env_conflicts"
    /\ ReportConflicts(ConflictsIn(environ, dotenv_file))
    /\ UNCHANGED <<inputs, loops, environ, issues, printed, observed, results>>

CheckEnvConflictsRaises ==
    /\ pc = "check_env_conflicts"
    /\ ReportConflictsRaises(ConflictsIn(environ, dotenv_file))
    /\ UNCHANGED <<inputs, loops, environ, issues, printed, observed, results>>

LoadDotenv ==
    /\ pc = "load_dotenv"
    /\ Returns("load_dotenv")
    /\ environ' = IF dotenv_file = None THEN environ
                  ELSE LoadInto(environ, dotenv_values(dotenv_file[1]))
    /\ UNCHANGED <<inputs, loops, conflicts, issues, printed, observed, results>>

DoublecheckEnvNoFile ==
    /\ pc = "doublecheck_env"
    /\ example_file = None
    /\ Returns("doublecheck_env")
    /\ UNCHANGED <<inputs, loops, environ, conflicts, issues, printed, observed, results>>

\* doublecheck_env has done its loops, with the report r
Reported(r) ==
    /\ issues' = r.issues
    /\ printed' = r.printed
    /\ observed' = r.observed

DoublecheckEnv ==
    /\ pc = "doublecheck_env"
    /\ example_file # None
    /\ Returns("doublecheck_env")
    /\ Reported(Reconcile(environ, example_file[1], dotenv_file))
    /\ UNCHANGED <<inputs, loops, environ, conflicts, results>>

DoublecheckPkgsNoFile ==
    /\ pc = "doublecheck_pkgs"
    /\ pyproject = None
    /\ Returns("doublecheck_pkgs")
    /\ UNCHANGED <<inputs, loops, environ, conflicts, issues, printed, observed, results>>

\* the loop over the dependencies has come to its end, with the audit a
Audited(a) ==
    /\ ~a.raised
    /\ results' = a.results
    /\ Returns("doublecheck_pkgs")

\* the loop over the dependencies was left by an exception
AuditRaises(a) ==
    /\ a.raised
    /\ results' = a.results
    /\ Raises("doublecheck_pkgs")

DoublecheckPkgs ==
    /\ pc = "doublecheck_pkgs"
    /\ pyproject # None
    /\ Audited(Audit(pyproject[1], dists, version_info))
    /\ UNCHANGED <<inputs, loops, environ, conflicts, issues, printed, observed>>

DoublecheckPkgsRaises ==
    /\ pc = "doublecheck_pkgs"
    /\ pyproject # None
    /\ AuditRaises(Audit(pyproject[1], dists, version_info))
    /\ UNCHANGED <<inputs, loops, environ, conflicts, issues, printed, observed>>

\* the end of the script
ExitNormally ==
    /\ pc = "end"
    /\ pc' = "exited"
    /\ exit_code' = Some(0)
    /\ UNCHANGED <<inputs, loops, environ, executed, conflicts, issues, printed, observed,
                   results>>

MaxEnvLines == 2

EnvLinePool ==
    {"OPENAI_API_KEY=sk-real", "OPENAI_API_KEY", "DEBUG='1' # local",
     "export LANGSMITH_TRACING=true"}

MainEnvChoices ==
    [OPENAI_API_KEY |-> {"sk-real", "sk-system"}, DEBUG |-> {"1", "0"}]

MainExamples ==
    {None,
     Some(<<"# Required", "OPENAI_API_KEY=sk-real", "# Optional", "DEBUG=0">>)}

MainPyprojects == {None, Some(<<"requests>=2.0">>), Some(<<"", "requests">>)}

MainDists == [requests |-> [version |-> "2.5", path |-> Some("/app/.venv/lib/python3.12/site-packages")]]

Init ==
    /\ pc = "check_python_executable_and_version"
    /\ imports_available \in BOOLEAN
    /\ environ \in Environs(MainEnvChoices)
    /\ dotenv_file \in Files(EnvLinePool, MaxEnvLines)
    /\ example_file \in MainExamples
    /\ pyproject \in MainPyprojects
    /\ dists = MainDists
    /\ version_info = <<3, 12>>
    /\ executed = <<>>
    /\ conflicts = <<>>
    /\ Fresh

Next ==
    \/ Diagnostics
    \/ ExitImportError
    \/ Proceed
    \/ CheckVenv
    \/ CheckManualInstalls
    \/ CheckEnvConflicts
    \/ CheckEnvConflictsRaises
    \/ LoadDotenv
    \/ DoublecheckEnvNoFile
    \/ DoublecheckEnv
    \/ DoublecheckPkgsNoFile
    \/ DoublecheckPkgs
    \/ DoublecheckPkgsRaises
    \/ ExitNormally

Spec == Init /\ [][Next]_vars

(***************************************************************************)
(* doublecheck_env after check_env_conflicts: load_dotenv, then the        *)
(* reconciliation, over example files and process environments.            *)
(***************************************************************************)
MaxExampleLines == 2

ExampleLinePool ==
    {"# Required keys", "# Optional",
     "OPENAI_API_KEY=sk-example", "export OPENAI_API_KEY=sk-example",
     "LANGSMITH_API_KEY='ls-example'", "LANGSMITH_API_KEY="}

EnvEnvChoices ==
    [OPENAI_API_KEY    |-> {"sk-example", "sk-real"},
     LANGSMITH_API_KEY |-> {"", "ls-example", "ls-real"},
     LANGSMITH_TRACING |-> {"true", "True", "false"}]

EnvDotenvs == {None, Some(<<"LANGSMITH_TRACING=True", "EXTRA_API_KEY=abcdefgh">>)}

\* the calls made before step
StepsBefore(step) ==
    <<"check_python_executable_and_version">>
    \o SubSeq(MainSteps, 1, (CHOOSE x \in 1..Len(MainSteps) : MainSteps[x] = step) - 1)

InitEnv ==
    /\ pc = "load_dotenv"
    /\ imports_available = TRUE
    /\ environ \in Environs(EnvEnvChoices)
    /\ dotenv_file \in EnvDotenvs
    /\ example_file \in Files(ExampleLinePool, MaxExampleLines)
    /\ pyproject = None
    /\ dists = EmptyDict
    /\ version_info = <<3, 12>>
    /\ executed = StepsBefore("load_dotenv")
    /\ conflicts = ConflictsIn(environ, dotenv_file)
    /\ Fresh

NextEnv ==
    \/ LoadDotenv
    \/ DoublecheckEnvNoFile
    \/ DoublecheckEnv

SpecEnv == InitEnv /\ [][NextEnv]_vars

(***************************************************************************)
(* doublecheck_pkgs alone, over dependency lists, installed distributions  *)
(* and interpreters.                                                       *)
(***************************************************************************)
MaxDeps == 2

DepPool ==
    {"requests>=2.0", "requests", "Requests ~= 2.4", "requests==1.0", "numpy<2",
     "", "requests>=", "bad name"}

DistPaths ==
    {Some("/app/.venv/lib/python3.12/site-packages"),
     Some("/usr/lib/python3.11/site-packages"),
     Some("/opt/python3.11/venv/lib/python3.12/site-packages"),
     Some("/srv/python/site-packages"),
     None}

DistChoices ==
    {EmptyDict} \cup
    {[requests |-> [version |-> v, path |-> p]] : v \in {"1.0", "2.5"}, p \in DistPaths}

InitPkgs ==
    /\ pc = "doublecheck_pkgs"
    /\ imports_available = TRUE
    /\ environ = EmptyDict
    /\ dotenv_file = None
    /\ example_file = None
    /\ pyproject \in Files(DepPool, MaxDeps)
    /\ dists \in DistChoices
    /\ version_info \in {<<3, 12>>, <<3, 13>>}
    /\ executed = StepsBefore("doublecheck_pkgs")
    /\ conflicts = <<>>
    /\ Fresh

NextPkgs ==
    \/ DoublecheckPkgsNoFile
    \/ DoublecheckPkgs
    \/ DoublecheckPkgsRaises

SpecPkgs == InitPkgs /\ [][NextPkgs]_vars

(***************************************************************************)
(* The parse of the example file, line by line.                            *)
(***************************************************************************)
MaxParseLines == 3

ParseLinePool ==
    {"# Required keys", "  # REQUIRED", "# optional settings", "",
     "malformed line", "KEY=value", "OTHER = 'x'", "KEY=changed"}

\* the line the loop is at
Line == example_file[1][line_no + 1]

\* the loop has a line left
InLoop ==
    /\ pc = "doublecheck_env"
    /\ example_file # None
    /\ line_no < Len(example_file[1])

\* the loop takes its next line
ParseStep ==
    /\ parse' = ParseLine(parse, Line)
    /\ line_no' = line_no + 1
    /\ UNCHANGED <<inputs, pc, environ, executed, exit_code, conflicts, issues, printed,
                   observed, results, masked>>

ParseCommentLine == InLoop /\ IsCommentLine(Line) /\ ParseStep
ParseKeyValueLine == InLoop /\ IsKeyValueLine(Line) /\ ParseStep
ParseOtherLine == InLoop /\ ~IsCommentLine(Line) /\ ~IsKeyValueLine(Line) /\ ParseStep

InitParse ==
    /\ pc = "doublecheck_env"
    /\ imports_available = TRUE
    /\ environ = EmptyDict
    /\ dotenv_file = None
    /\ example_file \in {Some(f) : f \in SeqsUpTo(ParseLinePool, MaxParseLines)}
    /\ pyproject = None
    /\ dists = EmptyDict
    /\ version_info = <<3, 12>>
    /\ executed = StepsBefore("doublecheck_env")
    /\ conflicts = <<>>
    /\ Fresh

NextParse ==
    \/ ParseCommentLine
    \/ ParseKeyValueLine
    \/ ParseOtherLine

SpecParse == InitParse /\ [][NextParse]_vars

(***************************************************************************)
(* The same parse over example files that declare a name more than once.   *)
(***************************************************************************)
MaxRedeclareLines == 4

RedeclareLinePool ==
    {"# Required keys", "# optional settings", "", "KEY=value", "KEY=changed"}

InitRedeclare ==
    /\ pc = "doublecheck_env"
    /\ imports_available = TRUE
    /\ environ = EmptyDict
    /\ dotenv_file = None
    /\ example_file \in {Some(f) : f \in SeqsUpTo(RedeclareLinePool, MaxRedeclareLines)}
    /\ pyproject = None
    /\ dists = EmptyDict
    /\ version_info = <<3, 12>>
    /\ executed = StepsBefore("doublecheck_env")
    /\ conflicts = <<>>
    /\ Fresh

SpecRedeclare == InitRedeclare /\ [][NextParse]_vars

(***************************************************************************)
(* summarize_value alone, over keys, values and example values.            *)
(***************************************************************************)
MaxValueLen == 5

MaskKeys == {"OPENAI_API_KEY", "API_KEY", "API_KEY_ID", "DEBUG"}
MaskAlphabet == {"s", "K", "-"}
BooleanStrings == {"true", "false", "True", "False", "FALSE"}
MaskValues == StringsUpTo(MaskAlphabet, MaxValueLen) \cup BooleanStrings
MaskExamples == {None, Some(""), Some("sK-sK"), Some("false")}

\* one call: print(f"{key}={summarize_value(key, current, example_val)}")
Summarize ==
    /\ pc = "summarize_value"
    /\ masked.result = None
    /\ masked' = [masked EXCEPT
                    !.result = Some(summarize_value(masked.key, masked.value,
                                                    masked.example_value))]
    /\ UNCHANGED <<inputs, pc, environ, executed, exit_code, conflicts, issues, printed,
                   observed, results, line_no, parse>>

InitMask ==
    /\ pc = "summarize_value"
    /\ imports_available = TRUE
    /\ environ = EmptyDict
    /\ dotenv_file = None
    /\ example_file = None
    /\ pyproject = None
    /\ dists = EmptyDict
    /\ version_info = <<3, 12>>
    /\ executed = StepsBefore("doublecheck_env")
    /\ conflicts = <<>>
    /\ exit_code = None
    /\ issues = <<>>
    /\ printed = <<>>
    /\ observed = EmptyDict
    /\ results = <<>>
    /\ line_no = 0
    /\ parse = ParseStart
    /\ masked \in [key : MaskKeys, value : MaskValues, example_value : MaskExamples,
                   result : {None}]

SpecMask == InitMask /\ [][Summarize]_vars

(***************************************************************************)
(* The properties                                                          *)
(***************************************************************************)
\* step has been called
Ran(step) == \E i \in 1..Len(executed) : executed[i] = step

\* step is the last call made
LastRan(step) == executed # <<>> /\ executed[Len(executed)] = step

\* doublecheck_env has gone through an example file that exists
Reconciliation == Ran("doublecheck_env") /\ example_file # None

\* the per-key issues reported for the key k
PerKeyIssueIndexes(k) ==
    {i \in 1..Len(issues) :
        issues[i].key = k /\ issues[i].kind \in {"MissingRequired", "StillPlaceholder"}}

PerKeyIssues(k) == {issues[i].kind : i \in PerKeyIssueIndexes(k)}

\* what the claim C1 expects for a required key k whose example value is example_val
ExpectedPerKeyIssues(k, example_val) ==
    IF k \notin DOMAIN environ THEN {"MissingRequired"}
    ELSE IF environ[k] = example_val THEN {"StillPlaceholder"}
    ELSE {}

\* the statement of C1 for the required keys required, with their example values
RequiredKeysReported(required) ==
    \A k \in DOMAIN required :
        /\ PerKeyIssues(k) = ExpectedPerKeyIssues(k, required[k])
        /\ Cardinality(PerKeyIssueIndexes(k)) <= 1

\* C1: for every key the parse of the example file marks as required, the
\* reconciliation reports MissingRequired when the key is absent from the process
\* environment, StillPlaceholder when it is present with the example value, and no
\* per-key issue when it is present with another value.  The code does not do this
\* for a required key that dotenv_values names differently (a line with "export").
C1_RequiredKeyOutcome ==
    Reconciliation => RequiredKeysReported(ParseExample(example_file[1]).required_keys)

\* the cross-field issues reported
TracingKinds == {"TracingKeyNotSet", "TracingKeyPlaceholder", "KeySetTracingDisabled"}
CrossIssueIndexes == {i \in 1..Len(issues) : issues[i].kind \in TracingKinds}
CrossIssues == {issues[i].kind : i \in CrossIssueIndexes}

\* the four cases of the cross-field rule, for T, K and E
CrossFieldRule(T, K, E) ==
    /\ Cardinality(CrossIssueIndexes) <= 1
    /\ (T = "true" /\ K = "") => CrossIssues = {"TracingKeyNotSet"}
    /\ (T = "true" /\ K # "" /\ K = E) => CrossIssues = {"TracingKeyPlaceholder"}
    /\ (T = "true" /\ K # "" /\ K # E) => CrossIssues = {}
    /\ (T # "true" /\ K # "" /\ K # E) => CrossIssues = {"KeySetTracingDisabled"}
    /\ (T # "true" /\ (K = "" \/ K = E)) => CrossIssues = {}

\* C2: with T the lowercased LANGSMITH_TRACING of the process environment, K its
\* LANGSMITH_API_KEY (empty if absent) and E the example value of LANGSMITH_API_KEY
\* (empty if absent), doublecheck_env reports exactly the cross-field issue of the
\* case T, K and E are in, and none in every other case.
C2_TracingRule ==
    Reconciliation =>
        CrossFieldRule(Lower(GetenvOr(environ, "LANGSMITH_TRACING", "")),
                       GetenvOr(environ, "LANGSMITH_API_KEY", ""),
                       GetenvOr(ParseExample(example_file[1]).all_example_values,
                                "LANGSMITH_API_KEY", ""))

\* tracing is switched on in capitals and the key is still the placeholder
C2_Witness ==
    /\ Reconciliation
    /\ GetenvOr(environ, "LANGSMITH_TRACING", "") = "True"
    /\ GetenvOr(environ, "LANGSMITH_API_KEY", "") = "ls-example"
    /\ CrossIssues = {"TracingKeyPlaceholder"}

\* what .env declares: key -> None or Some(value)
FileVars == IF dotenv_file = None THEN EmptyDict ELSE dotenv_values(dotenv_file[1])

ConflictIndexes(k) == {i \in 1..Len(conflicts) : conflicts[i].key = k}

\* the key k of .env has one conflict, with both values, or none
ConflictIff(k, file_value) ==
    IF k \in DOMAIN environ /\ Some(environ[k]) # file_value
    THEN \E i \in 1..Len(conflicts) :
            /\ ConflictIndexes(k) = {i}
            /\ conflicts[i].system_value = environ[k]
            /\ conflicts[i].file_value = file_value
    ELSE ConflictIndexes(k) = {}

\* C3: when check_env_conflicts has gone through .env, a key has a conflict if and
\* only if .env declares it, the process environment defines it and the two values
\* differ; a conflicting key has exactly one conflict, whose system_value is the
\* value of the process and whose file_value is the value of .env.
C3_ConflictIff ==
    LastRan("check_env_conflicts") =>
        /\ \A i \in 1..Len(conflicts) : conflicts[i].key \in DOMAIN FileVars
        /\ \A k \in DOMAIN FileVars : ConflictIff(k, FileVars[k])

\* one key of .env conflicts, another is set in the process to the value of .env
C3_Witness ==
    /\ LastRan("check_env_conflicts")
    /\ Len(conflicts) = 1
    /\ \E k \in DOMAIN FileVars : k \in DOMAIN environ /\ Some(environ[k]) = FileVars[k]

\* every call of a is preceded by a call of b
Preceded(a, b) ==
    \A j \in 1..Len(executed) :
        executed[j] = a => \E i \in 1..(j - 1) : executed[i] = b

\* C4: check_env_conflicts reads the process environment strictly before
\* load_dotenv loads .env into it, and load_dotenv runs strictly before
\* doublecheck_env reads it: the conflict detector is called with nothing loaded,
\* and the reconciler has observed every key that .env gives a value.
C4_ConflictsLoadReconcileOrder ==
    /\ pc = "check_env_conflicts" => ~Ran("load_dotenv")
    /\ pc = "doublecheck_env" => Ran("load_dotenv")
    /\ Preceded("load_dotenv", "check_env_conflicts")
    /\ Preceded("doublecheck_env", "load_dotenv")
    /\ Reconciliation =>
          \A k \in DOMAIN FileVars :
              FileVars[k] # None => k \in DOMAIN observed /\ observed[k] # None

\* a whole run, with a conflict found and a value observed
C4_Witness ==
    /\ pc = "exited"
    /\ exit_code = Some(0)
    /\ Reconciliation
    /\ conflicts # <<>>
    /\ \E k \in DOMAIN FileVars : FileVars[k] # None /\ observed[k] = FileVars[k]

\* the value v is not a boolean string and is to be masked for the key
Masked(key, value, example_value) ==
    /\ EndsWith(key, "API_KEY")
    /\ example_value = None \/ example_value[1] # value
    /\ Len(value) > 4

\* the output is **** and the last four characters of the value, and no more
ShowsLastFour(value, result) ==
    /\ result = "****" \o SubSeq(value, Len(value) - 3, Len(value))
    /\ Len(result) = 8

\* C5: for a name that ends in API_KEY, a value that differs from the example value,
\* has more than 4 characters and is not "true" or "false" in any case of letters,
\* summarize_value returns exactly "****" and the last 4 characters of the value.
C5_MaskShowsLastFour ==
    (/\ masked.result # None
     /\ Masked(masked.key, masked.value, masked.example_value)
     /\ Lower(masked.value) \notin {"true", "false"})
        => ShowsLastFour(masked.value, masked.result[1])

\* C5 as the specification states it, for every value of more than 4 characters:
\* a value that reads "false" is returned in lower case, whole
C5_AsStated ==
    (/\ masked.result # None
     /\ Masked(masked.key, masked.value, masked.example_value))
        => ShowsLastFour(masked.value, masked.result[1])

\* a key of five characters is masked
C5_Witness ==
    /\ masked.key = "OPENAI_API_KEY"
    /\ masked.value = "sK-sK"
    /\ masked.example_value = None
    /\ masked.result = Some("****K-sK")

\* the reconciler has observed the system value of every conflict
ObservedSystemValues ==
    \A i \in 1..Len(conflicts) :
        /\ conflicts[i].key \in DOMAIN observed
        /\ observed[conflicts[i].key] = Some(conflicts[i].system_value)

\* C6: no step takes a key from the process environment or changes its value, only
\* load_dotenv changes the process environment at all, and once doublecheck_env has
\* run, the value it has observed for the key of every conflict is the conflict's
\* system_value.
C6_LoadNeverOverrides ==
    [][/\ \A k \in DOMAIN environ : k \in DOMAIN environ' /\ environ'[k] = environ[k]
       /\ environ' # environ => pc = "load_dotenv"
       /\ Reconciliation' => ObservedSystemValues']_vars

\* a conflict, and the system value observed where .env has another one
C6_Witness ==
    /\ Reconciliation
    /\ \E i \in 1..Len(conflicts) :
          /\ conflicts[i].file_value # None
          /\ observed[conflicts[i].key] = Some(conflicts[i].system_value)
          /\ environ[conflicts[i].key] # conflicts[i].file_value[1]

\* C7: the run ends with exit code 1 exactly when the imports failed, and then none
\* of the six steps has run; every other run makes all six calls and ends with exit
\* code 0.  The code ends with 1 also when a step raises.
C7_ExitOneOnlyOnImportFailure ==
    pc = "exited" =>
        IF imports_available
        THEN exit_code = Some(0) /\ \A i \in 1..Len(MainSteps) : Ran(MainSteps[i])
        ELSE exit_code = Some(1) /\ \A i \in 1..Len(MainSteps) : ~Ran(MainSteps[i])

\* the interpreter tags of the path of a distribution
PathTags(d) == IF d.path = None THEN {} ELSE PyVersionsInPath(Lower(d.path[1]))

\* the status of an installed distribution d, by the priority of the claim C8
PriorityStatus(req, d, info) ==
    IF PathTags(d) # {} /\ ExpectedPyVersion(info) \notin PathTags(d)
    THEN "Wrong Python version"
    ELSE IF req.specifier # "" /\ ~InSpecifierSet(d.version, req.specifier)
    THEN "Version mismatch"
    ELSE "OK"

ExpectedStatus(req) ==
    IF Lower(req.name) \notin DOMAIN dists THEN "Missing"
    ELSE PriorityStatus(req, dists[Lower(req.name)], version_info)

\* doublecheck_pkgs has gone through a pyproject.toml that exists
Audition == Ran("doublecheck_pkgs") /\ pyproject # None

\* C8: every declared dependency whose requirement string parses has a record, with
\* the status Missing, Wrong Python version, Version mismatch or OK, in this
\* priority.  The code gives no record to a dependency declared after an empty
\* one, where the audit ends with a ValueError.
C8_EveryParsedDependencyStatus ==
    Audition =>
        \A i \in 1..Len(pyproject[1]) :
            Requirement(pyproject[1][i]).ok =>
                /\ i <= Len(results)
                /\ results[i].status = ExpectedStatus(Requirement(pyproject[1][i]))

\* the part of C8 that holds: every record the audit makes for a dependency that
\* parses has the status of the priority
C8_AuditedStatusPriority ==
    Audition =>
        \A i \in 1..Len(results) :
            Requirement(pyproject[1][i]).ok =>
                results[i].status = ExpectedStatus(Requirement(pyproject[1][i]))

\* C9: every dependency that fails to parse is recorded with its raw string as the
\* name, the specifier (unparsed) and the status Missing, and the audit goes on to
\* the other dependencies without raising.  The code raises a ValueError for an
\* empty dependency string.
C9_UnparsedRecordedAuditContinues ==
    Audition =>
        /\ exit_code # Some(1)
        /\ Len(results) = Len(pyproject[1])
        /\ \A i \in 1..Len(results) :
              ~Requirement(pyproject[1][i]).ok =>
                  /\ results[i].package = pyproject[1][i]
                  /\ results[i].required = "(unparsed)"
                  /\ results[i].status = "Missing"

\* the last comment line among the first n lines mentions "required"
RequiredAt(lines, n) ==
    \E c \in 1..n :
        /\ IsCommentLine(lines[c])
        /\ MentionsRequired(lines[c])
        /\ \A d \in (c + 1)..n : ~IsCommentLine(lines[d])

\* the lines among the first n that declare the key k
Declarations(lines, n, k) ==
    {j \in 1..n : IsKeyValueLine(lines[j]) /\ LineKey(lines[j]) = k}

DeclaredKeys(lines, n) ==
    {LineKey(lines[j]) : j \in {x \in 1..n : IsKeyValueLine(lines[x])}}

\* C10: after any number of lines, the required-section flag is true exactly when
\* there is a comment line and the last one contains "required" in any case of
\* letters (it starts false, and no other line changes it), and a key is recorded
\* as required exactly when a line declares it with the flag true.
C10_RequiredFlagAutomaton ==
    /\ parse.is_required_section = RequiredAt(example_file[1], line_no)
    /\ \A k \in DeclaredKeys(example_file[1], line_no) \cup DOMAIN parse.required_keys :
          k \in DOMAIN parse.required_keys
              <=> \E j \in Declarations(example_file[1], line_no, k) :
                      RequiredAt(example_file[1], j - 1)

\* a key declared in a required section that a later comment has closed
C10_Witness ==
    /\ line_no = 3
    /\ MentionsRequired(example_file[1][1])
    /\ IsCommentLine(example_file[1][3])
    /\ "KEY" \in DOMAIN parse.required_keys
    /\ ~parse.is_required_section

\* the last of the first n lines that declares the key k
LastDeclaration(lines, n, k) ==
    CHOOSE j \in Declarations(lines, n, k) : \A x \in Declarations(lines, n, k) : x <= j

\* C11: after the parse, the example value of every declared name is the value of
\* its last declaration, a name is in the required map exactly when its last
\* declaration lies in a required section, and the required map and the map of all
\* declared names give it the same value.  The code never takes a name out of the
\* required map, nor updates its value there, when the name is declared again
\* outside a required section.
C11_LastDeclarationWins ==
    line_no = Len(example_file[1]) =>
        \A k \in DeclaredKeys(example_file[1], line_no) :
            /\ k \in DOMAIN parse.all_example_values
            /\ parse.all_example_values[k]
                  = LineValue(example_file[1][LastDeclaration(example_file[1], line_no, k)])
            /\ k \in DOMAIN parse.required_keys
                  <=> RequiredAt(example_file[1],
                                 LastDeclaration(example_file[1], line_no, k) - 1)
            /\ k \in DOMAIN parse.required_keys
                  => parse.required_keys[k] = parse.all_example_values[k]

\* the key is an API key set to a value that is no boolean string and equals the
\* example value the example file declares for it
StillExample(k, examples) ==
    /\ EndsWith(k, "API_KEY")
    /\ k \in DOMAIN environ
    /\ Lower(environ[k]) \notin {"true", "false"}
    /\ k \in DOMAIN examples
    /\ environ[k] = examples[k]

\* every line printed for such a key shows its value as it is
ShownVerbatim(examples) ==
    \A i \in 1..Len(printed) :
        StillExample(printed[i].key, examples) => printed[i].shown = environ[printed[i].key]

\* every such key reported as StillPlaceholder is printed, with its value as it is
PlaceholdersVerbatim(examples) ==
    \A j \in 1..Len(issues) :
        (issues[j].kind = "StillPlaceholder" /\ StillExample(issues[j].key, examples))
            => \E i \in 1..Len(printed) :
                  /\ printed[i].key = issues[j].key
                  /\ printed[i].shown = environ[issues[j].key]

\* C12: a key that ends in API_KEY, whose value is no boolean string and equals the
\* example value declared for it in the example file, an empty one included, is
\* displayed with its value unchanged, and so is every such key reported as
\* StillPlaceholder.  The code masks the value when the example value is empty.
C12_PlaceholderShownVerbatim ==
    Reconciliation =>
        /\ ShownVerbatim(ParseExample(example_file[1]).all_example_values)
        /\ PlaceholdersVerbatim(ParseExample(example_file[1]).all_example_values)

=============================================================================
